---- MODULE Spec2Model ----
(***************************************************************************)
(* Model of mdp/hinet/hinet_translator.py (HiNetTranslator,                *)
(* NewlineWriteFile, HiNetHTMLTranslator, NODE_HTML_TRANSLATORS) and of    *)
(* bimdp/nodes/miscnodes.py (SenderBiNode).                                *)
(*                                                                         *)
(* A node is a record [kind, type, kids, n]:                               *)
(*   kind  the class the isinstance tests of _translate_node see,          *)
(*   type  the node class name the registry's isinstance test sees,        *)
(*   kids  flownode._flow.flow / layer.nodes / <<clonelayer.node>>,        *)
(*   n     len(clonelayer.nodes) of a CloneLayer, 0 otherwise.             *)
(* A flow is a sequence of nodes.                                          *)
(***************************************************************************)
EXTENDS Integers, Sequences, FiniteSets, TLC

VARIABLES
    flow,       \* generic translator: the flow handed to _translate_flow
    garg,       \* generic translator: the argument of the last call
    gres,       \* generic translator: outcome of the last call
    heap,       \* the list objects: list identity -> its entries
    node_param_translators, \* instance -> identity of self._node_param_translators
    ctor_arg,   \* instance -> identity of the list its constructor was given
    added,      \* list identity -> entries added through instances built on it
    html_file,  \* instance -> self._html_file: None, or the wrapped file object
    self,       \* the instance whose write_flow_to_file is executing, or None
    active,     \* number of write_flow_to_file activations on the call stack
    work,       \* the rest of the executing call: the steps still to run
    err,        \* the exception that ended the last call, None if it returned
    sinks,      \* file object -> what has been written to it
    wlog,       \* file object -> the NewlineWriteFile.write calls made on it
    last_render, \* the last registry scan of _translate_standard_node
    recipient_id, \* SenderBiNode._recipient_id
    MSG_ID_SEP, \* bimdp.MSG_ID_SEP, the separator of message keys
    ret,        \* what SenderBiNode._execute returned: x and msg
    parts       \* the two parts of the key of msg, split at the separator

genVars == <<flow, garg, gres>>

regVars == <<heap, node_param_translators, ctor_arg, added>>

htmlVars == <<html_file, self, active, work, err, sinks, wlog, last_render>>

msgVars == <<recipient_id, MSG_ID_SEP, ret, parts>>

vars == <<flow, garg, gres, heap, node_param_translators, ctor_arg, added,
          html_file, self, active, work, err, sinks, wlog, last_render,
          recipient_id, MSG_ID_SEP, ret, parts>>

(***************************************************************************)
(* Bounds of the model.                                                    *)
(***************************************************************************)
\* Largest number of nodes (at all depths) of a flow given to the generic
\* translator.
MaxSize == 3

\* Largest len(clonelayer.nodes).
MaxRep == 2

(***************************************************************************)
(* The graph model (mdp.Node, mdp.hinet.FlowNode / Layer / CloneLayer are  *)
(* imported; the translator reads only the fields below).                  *)
(***************************************************************************)
None == "None"

\* Classes of leaf nodes: mdp.Node itself and a class NODE_HTML_TRANSLATORS
\* names.
LeafTypes == {"Node", "NormalNoiseNode"}

StandardNode(t) == [kind |-> "StandardNode", type |-> t, kids |-> <<>>, n |-> 0]

\* An object that is no mdp.Node at all: none of the isinstance tests of
\* _translate_node is true of it.
OtherObject == [kind |-> "Other", type |-> "object", kids |-> <<>>, n |-> 0]

FlowNode(f) == [kind |-> "FlowNode", type |-> "FlowNode", kids |-> f, n |-> 0]

Layer(ns) == [kind |-> "Layer", type |-> "Layer", kids |-> ns, n |-> 0]

CloneLayer(p, k) == [kind |-> "CloneLayer", type |-> "CloneLayer", kids |-> <<p>>, n |-> k]

Leaves == {StandardNode(t) : t \in LeafTypes} \cup {OtherObject}

RECURSIVE Trees(_, _), Forests(_, _)
\* The nodes made of exactly s nodes, the CloneLayers among them with a
\* len(clonelayer.nodes) in reps.
Trees(s, reps) ==
    IF s = 0 THEN {}
    ELSE (IF s = 1 THEN Leaves ELSE {})
         \cup {FlowNode(f) : f \in Forests(s - 1, reps)}
         \cup {Layer(f) : f \in Forests(s - 1, reps)}
         \cup {CloneLayer(p, k) : p \in Trees(s - 1, reps), k \in reps}

\* The node sequences made of exactly s nodes.
Forests(s, reps) ==
    IF s = 0 THEN {<<>>}
    ELSE UNION {{<<t>> \o f : t \in Trees(k, reps), f \in Forests(s - k, reps)} : k \in 1..s}

Flows(max, reps) == UNION {Forests(s, reps) : s \in 0..max}

(***************************************************************************)
(* HiNetTranslator: the generic translation.  A call returns               *)
(*   val    the translation: a node (passed through) or [list |-> <<..>>], *)
(*   calls  the arguments of the _translate_node calls made, in order,     *)
(*   err    the exception raised, None when the call returned.             *)
(***************************************************************************)
RECURSIVE translate_node(_), translate_each(_)

\* `for node in ...: translation.append(self._translate_node(node))`
translate_each(nodes) ==
    IF nodes = <<>> THEN [val |-> <<>>, calls |-> <<>>]
    ELSE LET h == translate_node(Head(nodes))
             t == translate_each(Tail(nodes))
         IN [val |-> <<h.val>> \o t.val, calls |-> h.calls \o t.calls]

translate_flow(f) ==
    LET r == translate_each(f)
    IN [val |-> [list |-> r.val], calls |-> r.calls, err |-> None]

\* A FlowNode translated as a level of its own around its flow.
translate_flownode_wrapped(flownode) ==
    LET r == translate_each(flownode.kids)
    IN [val |-> [list |-> <<[list |-> r.val]>>], calls |-> r.calls]

translate_flownode(flownode) ==
    LET r == translate_each(flownode.kids)
    IN [val |-> [list |-> r.val], calls |-> r.calls]

translate_layer(layer) ==
    LET r == translate_each(layer.kids)
    IN [val |-> [list |-> r.val], calls |-> r.calls]

\* The prototype translated once per repetition:
\* `[self._translate_node(clonelayer.node) for _ in clonelayer.nodes]`.
RECURSIVE translate_repeated(_, _)
translate_repeated(node, k) ==
    IF k = 0 THEN [val |-> <<>>, calls |-> <<>>]
    ELSE LET h == translate_node(node)
             t == translate_repeated(node, k - 1)
         IN [val |-> <<h.val>> \o t.val, calls |-> h.calls \o t.calls]

translate_clonelayer_each(clonelayer) ==
    LET r == translate_repeated(clonelayer.kids[1], clonelayer.n)
    IN [val |-> [list |-> r.val], calls |-> r.calls]

\* `[translated_node] * len(clonelayer.nodes)`
translate_clonelayer(clonelayer) ==
    LET r == translate_node(clonelayer.kids[1])
    IN [val |-> [list |-> [i \in 1..clonelayer.n |-> r.val]], calls |-> r.calls]

translate_standard_node(node) == [val |-> node, calls |-> <<>>]

\* A dispatch that raises for an object that is no node.
translate_node_strict(node) ==
    LET r == IF node.kind = "FlowNode" THEN translate_flownode(node)
             ELSE IF node.kind = "CloneLayer" THEN translate_clonelayer(node)
             ELSE IF node.kind = "Layer" THEN translate_layer(node)
             ELSE translate_standard_node(node)
    IN [val |-> r.val, calls |-> <<node>> \o r.calls,
        err |-> IF node.kind = "Other" THEN "UnsupportedVariant" ELSE None]

translate_node(node) ==
    LET r == IF node.kind = "FlowNode" THEN translate_flownode(node)
             ELSE IF node.kind = "CloneLayer" THEN translate_clonelayer(node)
             ELSE IF node.kind = "Layer" THEN translate_layer(node)
             ELSE translate_standard_node(node)
    IN [val |-> r.val, calls |-> <<node>> \o r.calls, err |-> None]

(***************************************************************************)
(* NODE_HTML_TRANSLATORS and the render functions.  An entry is            *)
(* <<node class, render function>>.                                        *)
(***************************************************************************)
NODE_HTML_TRANSLATORS ==
    << <<"Rectangular2dSwitchboard", "_get_html_rect2dswitchboard">>,
       <<"SFA2Node", "_get_html_sfa2">>,
       <<"NormalNoiseNode", "_get_html_normalnoise">> >>

\* The classes of mdp nodes: each is a subclass of mdp.Node.
NodeClasses ==
    {"Node", "Rectangular2dSwitchboard", "SFA2Node", "NormalNoiseNode",
     "FlowNode", "Layer", "CloneLayer"}

\* isinstance(node, cls)
isinstance(node, cls) ==
    \/ node.type = cls
    \/ cls = "Node" /\ node.type \in NodeClasses

\* The lines a render function returns: the number of its list's elements.
\* The functions registered by callers: user_one returns one line,
\* user_two returns two, user_fn is any callable at all (see Outcomes).
LinesOf(fn) ==
    CASE fn = "_get_html_rect2dswitchboard" -> 4
      [] fn = "_get_html_sfa2" -> 1
      [] fn = "_get_html_normalnoise" -> 2
      [] fn = "user_one" -> 1
      [] fn = "user_two" -> 2
      [] OTHER -> 0

\* What a call of the render function does: return its lines, raise, or
\* call write_flow_to_file of the translator that is calling it and then
\* return.
Outcomes(fn) ==
    IF fn = "user_fn" THEN {"return", "raise", "reenter"} ELSE {"return"}

\* `" <br>\n".join(lines)` for a list of k lines of text.
RECURSIVE join_br(_)
join_br(k) ==
    IF k = 0 THEN <<>>
    ELSE IF k = 1 THEN <<"txt">>
    ELSE <<"txt", "<br>", "\n">> \o join_br(k - 1)

\* The loop of _translate_standard_node over the registry, from its end:
\* the position of the first entry whose class the node is an instance of,
\* 0 when the loop ends without a break.
RECURSIVE scan_reversed(_, _, _)
scan_reversed(reg, node, i) ==
    IF i = 0 THEN 0
    ELSE IF isinstance(node, reg[i][1]) THEN i
    ELSE scan_reversed(reg, node, i - 1)

\* The registry worked from its start: the first matching entry.
select_first(reg, node) ==
    IF \E i \in 1..Len(reg) : isinstance(node, reg[i][1])
    THEN CHOOSE i \in 1..Len(reg) :
            /\ isinstance(node, reg[i][1])
            /\ \A j \in 1..(i - 1) : ~isinstance(node, reg[j][1])
    ELSE 0

select_translator(reg, node) == scan_reversed(reg, node, Len(reg))

(***************************************************************************)
(* NewlineWriteFile.  A text is a sequence of tokens: the table tags       *)
(* (attributes dropped), "<br>", "txt" for any other text, "\n".           *)
(***************************************************************************)
\* A write that forwards the string as it is.
write_unterminated(str_obj) == str_obj

\* What NewlineWriteFile.write hands to file_obj.write: str_obj + "\n".
NewlineWriteFile_write(str_obj) == str_obj \o <<"\n">>

(***************************************************************************)
(* HiNetHTMLTranslator.  The executing call is kept as the sequence of the *)
(* steps it still has to run (work): a method call is replaced by the      *)
(* steps of its body when it is reached, with `f = self._html_file` read   *)
(* at that moment.                                                         *)
(***************************************************************************)
Inst == {"t1", "t2", "t3"}

\* The file objects callers pass to write_flow_to_file.
Files == {"file1", "file2"}

NoNode == [kind |-> "None", type |-> "None", kids |-> <<>>, n |-> 0]

\* A flow as the argument of a step.
FlowArg(f) == [kind |-> "Flow", type |-> "Flow", kids |-> f, n |-> 0]

\* f.write(toks); lines >= 0 marks the write of the joined parameter lines
\* of a render function that returned that many lines.
W(f, toks) ==
    [op |-> "write", f |-> f, toks |-> toks, node |-> NoNode, tid |-> "", lines |-> -1]

\* f.write(fmt % node.input_dim) or f.write(fmt % node.output_dim)
WDim(f, toks, node) ==
    [op |-> "write_dim", f |-> f, toks |-> toks, node |-> node, tid |-> "", lines |-> -1]

WParams(f, k) ==
    [op |-> "write", f |-> f, toks |-> join_br(k), node |-> NoNode, tid |-> "", lines |-> k]

Call(op, node, tid) ==
    [op |-> op, f |-> None, toks |-> <<>>, node |-> node, tid |-> tid, lines |-> -1]

\* The registry loop of _translate_standard_node, with the f of its frame.
Params(f, node) ==
    [op |-> "params", f |-> f, toks |-> <<>>, node |-> node, tid |-> "", lines |-> -1]

\* `self._html_file = None`, the last statement of write_flow_to_file.
Unbind == Call("unbind", NoNode, "")

IsWrapper(tid) == tid = "flow" \/ tid = "flownode"

\* _open_node_env(node, type_id)
open_node_env(f, node, tid) ==
    <<W(f, <<"<table>">>)>>
    \o (IF ~IsWrapper(tid)
        THEN <<WDim(f, <<"<tr>", "<td>", "txt", "</td>", "</tr>">>, node)>>
        ELSE <<>>)
    \o <<W(f, <<"<tr>", "<td>">>), W(f, <<"<table>">>)>>

\* _close_node_env(node, type_id)
close_node_env(f, node, tid) ==
    <<W(f, <<"</table>">>), W(f, <<"</td>", "</tr>">>)>>
    \o (IF ~IsWrapper(tid)
        THEN <<WDim(f, <<"<tr>", "<td>", "txt">>, node), W(f, <<"</td>", "</tr>">>)>>
        ELSE <<>>)
    \o <<W(f, <<"</table>">>)>>

\* The body of the loops of _translate_flow and _translate_flownode (a row
\* per node) and of _translate_layer (a column per node).
RECURSIVE each_node(_, _, _, _)
each_node(f, nodes, before, after) ==
    IF nodes = <<>> THEN <<>>
    ELSE <<W(f, before), Call("translate_node", Head(nodes), ""), W(f, after)>>
         \o each_node(f, Tail(nodes), before, after)

\* HiNetHTMLTranslator._translate_flow
html_translate_flow(f, fl) ==
    <<Call("open_node_env", fl, "flow")>>
    \o each_node(f, fl.kids, <<"<tr>", "<td>">>, <<"</td>", "</tr>">>)
    \o <<W(f, <<"</td>", "</tr>">>), Call("close_node_env", fl, "flow")>>

\* HiNetHTMLTranslator._translate_flownode
html_translate_flownode(f, flownode) ==
    <<Call("open_node_env", flownode, "flownode")>>
    \o each_node(f, flownode.kids, <<"<tr>", "<td>">>, <<"</td>", "</tr>">>)
    \o <<Call("close_node_env", flownode, "flownode")>>

\* HiNetHTMLTranslator._translate_layer
html_translate_layer(f, layer) ==
    <<Call("open_node_env", layer, "layer"), W(f, <<"<tr>">>)>>
    \o each_node(f, layer.kids, <<"<td>">>, <<"</td>">>)
    \o <<W(f, <<"</tr>">>), Call("close_node_env", layer, "node")>>

\* HiNetHTMLTranslator._translate_clonelayer
html_translate_clonelayer(f, clonelayer) ==
    <<Call("open_node_env", clonelayer, "layer"),
      W(f, <<"<tr>", "<td>">>),
      W(f, <<"txt", "<br>", "<br>">>),
      W(f, <<"txt">>),
      W(f, <<"</td>">>),
      W(f, <<"<td>">>),
      Call("translate_node", clonelayer.kids[1], ""),
      W(f, <<"</td>", "</tr>">>),
      Call("close_node_env", clonelayer, "node")>>

\* HiNetHTMLTranslator._translate_standard_node
html_translate_standard_node(f, node) ==
    <<Call("open_node_env", node, "node"),
      W(f, <<"<tr>", "<td>">>),
      W(f, <<"txt">>),
      W(f, <<"</td>", "</tr>">>),
      W(f, <<"<tr>", "<td>">>),
      Params(f, node),
      W(f, <<"</td>", "</tr>">>),
      Call("close_node_env", node, "node")>>

\* HiNetTranslator._translate_node, dispatching to the overriding methods.
html_translate_node(f, node) ==
    IF node.kind = "FlowNode" THEN html_translate_flownode(f, node)
    ELSE IF node.kind = "CloneLayer" THEN html_translate_clonelayer(f, node)
    ELSE IF node.kind = "Layer" THEN html_translate_layer(f, node)
    ELSE html_translate_standard_node(f, node)

\* The steps of the body of the method call `c`, entered while
\* self._html_file is f.
Body(c, f) ==
    CASE c.op = "translate_flow" -> html_translate_flow(f, c.node)
      [] c.op = "translate_node" -> html_translate_node(f, c.node)
      [] c.op = "open_node_env" -> open_node_env(f, c.node, c.tid)
      [] c.op = "close_node_env" -> close_node_env(f, c.node, c.tid)

\* write_flow_to_file(flow, html_file) after its first statement.
write_flow_to_file(fl) == <<Call("translate_flow", FlowArg(fl), ""), Unbind>>

(***************************************************************************)
(* State of the module after import and of the instances.                  *)
(***************************************************************************)
\* Instances constructed with the default registry; "t3" is constructed
\* with a list of its caller.
DefaultInst == {"t1", "t2"}

\* The list the caller of HiNetHTMLTranslator(caller_list) owns.
CallerList == << <<"Node", "user_one">> >>

InitialLists ==
    [l \in {"NODE_HTML_TRANSLATORS", "caller_list"} |->
        IF l = "NODE_HTML_TRANSLATORS" THEN NODE_HTML_TRANSLATORS ELSE CallerList]

NoRender == [reg |-> <<>>, node |-> NoNode, pos |-> 0, fn |-> None]

Registry(t) == heap[node_param_translators[t]]

\* A constructor that keeps a copy of the list, a new list object of the
\* instance: `self._node_param_translators = list(node_param_translators)`.
init_with_copy(h, t, arg) == [heap |-> (t :> h[arg]) @@ h, ref |-> t]

\* HiNetHTMLTranslator.__init__: `self._node_param_translators =
\* node_param_translators`: the heap and the list the instance refers to.
HiNetHTMLTranslator_init(h, t, arg) == [heap |-> h, ref |-> arg]

\* add_node_param_translators: `self._node_param_translators += more`, on a
\* list the in-place extension of the list object.
add_node_param_translators(h, t, ref, more) ==
    [heap |-> [h EXCEPT ![ref] = @ \o more], ref |-> ref]

\* Largest number of entries added to one list.
MaxAdded == 2

\* Largest number of write_flow_to_file activations on the call stack.
MaxActive == 2

\* Largest number of nodes of a flow given to write_flow_to_file.
HtmlMaxSize == 2

\* The lists handed to add_node_param_translators.
AddLists ==
    { << <<"Node", "user_one">> >>,
      << <<"SFA2Node", "user_one">>, <<"SFA2Node", "user_two">> >> }

\* The flows a render function hands to the write_flow_to_file call it makes.
ReentrantFlows == {<<>>, <<StandardNode("Node")>>}

Idle == active = 0

Construct(t) ==
    /\ Idle
    /\ ctor_arg[t] = None
    /\ LET arg == IF t \in DefaultInst THEN "NODE_HTML_TRANSLATORS" ELSE "caller_list"
           r == HiNetHTMLTranslator_init(heap, t, arg)
       IN /\ heap' = r.heap
          /\ node_param_translators' = [node_param_translators EXCEPT ![t] = r.ref]
          /\ ctor_arg' = [ctor_arg EXCEPT ![t] = arg]
          /\ html_file' = [html_file EXCEPT ![t] = None]
    /\ UNCHANGED <<added, self, active, work, err, sinks, wlog, last_render>>
    /\ UNCHANGED <<genVars, msgVars>>

AddNodeParamTranslators(t, more) ==
    /\ Idle
    /\ ctor_arg[t] # None
    /\ Len(added[ctor_arg[t]]) + Len(more) <= MaxAdded
    /\ LET r == add_node_param_translators(heap, t, node_param_translators[t], more)
       IN /\ heap' = r.heap
          /\ node_param_translators' = [node_param_translators EXCEPT ![t] = r.ref]
    /\ added' = [added EXCEPT ![ctor_arg[t]] = @ \o more]
    /\ UNCHANGED <<ctor_arg, html_file, self, active, work, err, sinks, wlog, last_render>>
    /\ UNCHANGED <<genVars, msgVars>>

\* A call of write_flow_to_file by a caller that is not itself inside one:
\* `self._html_file = NewlineWriteFile(html_file)`, then the rest.  The
\* files are new ones.
WriteFlowToFile(t, fl, file) ==
    /\ Idle
    /\ ctor_arg[t] # None
    /\ html_file' = [html_file EXCEPT ![t] = file]
    /\ self' = t
    /\ active' = 1
    /\ work' = write_flow_to_file(fl)
    /\ err' = None
    /\ sinks' = [f \in Files |-> <<>>]
    /\ wlog' = [f \in Files |-> <<>>]
    /\ last_render' = NoRender
    /\ UNCHANGED regVars
    /\ UNCHANGED <<genVars, msgVars>>

\* An exception leaves every frame: no method of the translator catches it
\* and write_flow_to_file has no finally clause.
Raise(e) ==
    /\ err' = e
    /\ work' = <<>>
    /\ active' = 0
    /\ self' = None

\* A method of the translator is entered.
Enter ==
    /\ active > 0
    /\ Head(work).op \in {"translate_flow", "translate_node", "open_node_env", "close_node_env"}
    /\ work' = Body(Head(work), html_file[self]) \o Tail(work)
    /\ UNCHANGED <<html_file, self, active, err, sinks, wlog, last_render>>
    /\ UNCHANGED regVars
    /\ UNCHANGED <<genVars, msgVars>>

\* f.write(...): f is None after a nested write_flow_to_file returned; an
\* object that is no node has no input_dim; the file object may raise.
Write ==
    /\ active > 0
    /\ Head(work).op \in {"write", "write_dim"}
    /\ LET c == Head(work)
       IN IF c.f = None \/ (c.op = "write_dim" /\ c.node.kind = "Other")
          THEN Raise("AttributeError") /\ UNCHANGED <<sinks, wlog>>
          ELSE \E ok \in BOOLEAN :
                  IF ok
                  THEN /\ sinks' = [sinks EXCEPT ![c.f] = @ \o NewlineWriteFile_write(c.toks)]
                       /\ wlog' = [wlog EXCEPT ![c.f] = Append(@, [text |-> c.toks, lines |-> c.lines])]
                       /\ work' = Tail(work)
                       /\ UNCHANGED <<self, active, err>>
                  ELSE Raise("IOError") /\ UNCHANGED <<sinks, wlog>>
    /\ UNCHANGED <<html_file, last_render>>
    /\ UNCHANGED regVars
    /\ UNCHANGED <<genVars, msgVars>>

\* The registry loop of _translate_standard_node and the call of the render
\* function it finds.
RenderParams ==
    /\ active > 0
    /\ Head(work).op = "params"
    /\ LET c == Head(work)
           reg == Registry(self)
           i == select_translator(reg, c.node)
       IN IF i = 0
          THEN /\ last_render' = [reg |-> reg, node |-> c.node, pos |-> 0, fn |-> None]
               /\ work' = Tail(work)
               /\ UNCHANGED <<html_file, self, active, err>>
          ELSE \E o \in Outcomes(reg[i][2]) :
                  /\ last_render' = [reg |-> reg, node |-> c.node, pos |-> i, fn |-> reg[i][2]]
                  /\ IF o = "return"
                     THEN /\ work' = <<WParams(c.f, LinesOf(reg[i][2]))>> \o Tail(work)
                          /\ UNCHANGED <<html_file, self, active, err>>
                     ELSE IF o = "raise"
                     THEN Raise("RenderError") /\ UNCHANGED html_file
                     ELSE \E fl \in ReentrantFlows, file \in Files :
                             /\ active < MaxActive
                             /\ html_file' = [html_file EXCEPT ![self] = file]
                             /\ active' = active + 1
                             /\ work' = write_flow_to_file(fl)
                                        \o <<WParams(c.f, LinesOf(reg[i][2]))>> \o Tail(work)
                             /\ UNCHANGED <<self, err>>
    /\ UNCHANGED <<sinks, wlog>>
    /\ UNCHANGED regVars
    /\ UNCHANGED <<genVars, msgVars>>

\* `self._html_file = None`: write_flow_to_file returns.
Return ==
    /\ active > 0
    /\ Head(work).op = "unbind"
    /\ html_file' = [html_file EXCEPT ![self] = None]
    /\ active' = active - 1
    /\ self' = IF active = 1 THEN None ELSE self
    /\ work' = Tail(work)
    /\ UNCHANGED <<err, sinks, wlog, last_render>>
    /\ UNCHANGED regVars
    /\ UNCHANGED <<genVars, msgVars>>

InitIdle ==
    /\ html_file = [t \in Inst |-> None]
    /\ self = None
    /\ active = 0
    /\ work = <<>>
    /\ err = None
    /\ sinks = [f \in Files |-> <<>>]
    /\ wlog = [f \in Files |-> <<>>]
    /\ last_render = NoRender

NoCall == [op |-> None, val |-> NoNode, calls |-> <<>>, err |-> None]

InitNoCall ==
    /\ garg = NoNode
    /\ gres = NoCall

NoReturn == [called |-> FALSE, x |-> None, msg |-> {}]

NoParts == [found |-> FALSE, left |-> <<>>, right |-> <<>>]

\* No SenderBiNode exists.
InitNoSender ==
    /\ recipient_id = <<>>
    /\ MSG_ID_SEP = <<>>
    /\ ret = NoReturn
    /\ parts = NoParts

\* The state after the import of the module: no instance exists.
InitModule ==
    /\ heap = InitialLists
    /\ node_param_translators = [t \in Inst |-> None]
    /\ ctor_arg = [t \in Inst |-> None]
    /\ added = [l \in DOMAIN InitialLists |-> <<>>]

(***************************************************************************)
(* Specification of the registry: instances are constructed, entries are   *)
(* added, flows of one StandardNode are written.                           *)
(***************************************************************************)
InitRegistry == InitModule /\ InitIdle /\ flow = <<>> /\ InitNoCall /\ InitNoSender

RegistryFlows == {<<StandardNode(t)>> : t \in {"Node", "SFA2Node"}}

ConstructAny == \E t \in Inst : Construct(t)

AddAny == \E t \in Inst, more \in AddLists : AddNodeParamTranslators(t, more)

WriteOneNode == \E t \in Inst, fl \in RegistryFlows : WriteFlowToFile(t, fl, "file1")

NextRegistry ==
    ConstructAny \/ AddAny \/ WriteOneNode \/ Enter \/ Write \/ RenderParams \/ Return

SpecRegistry == InitRegistry /\ [][NextRegistry]_vars

(***************************************************************************)
(* Specification of the HTML translation: instance "t1", constructed with  *)
(* the default registry, to which a caller may have added a render         *)
(* function of its own for every node, writes flows.                       *)
(***************************************************************************)
UserEntries == << <<"Node", "user_fn">> >>

InitHTML ==
    /\ \E more \in {<<>>, UserEntries} :
          /\ heap = [InitialLists EXCEPT !["NODE_HTML_TRANSLATORS"] = @ \o more]
          /\ added = [l \in DOMAIN InitialLists |->
                        IF l = "NODE_HTML_TRANSLATORS" THEN more ELSE <<>>]
    /\ node_param_translators = [t \in Inst |-> IF t = "t1" THEN "NODE_HTML_TRANSLATORS" ELSE None]
    /\ ctor_arg = [t \in Inst |-> IF t = "t1" THEN "NODE_HTML_TRANSLATORS" ELSE None]
    /\ InitIdle
    /\ flow \in Flows(HtmlMaxSize, {MaxRep})
    /\ InitNoCall
    /\ InitNoSender

WriteFlow == WriteFlowToFile("t1", flow, "file1")

NextHTML == WriteFlow \/ Enter \/ Write \/ RenderParams \/ Return

SpecHTML == InitHTML /\ [][NextHTML]_vars

(***************************************************************************)
(* Specification of the generic translator: a flow is built, then          *)
(* _translate_flow is called on it, or _translate_node on one of its       *)
(* nodes.                                                                  *)
(***************************************************************************)
InitGeneric ==
    /\ flow \in Flows(MaxSize, 0..MaxRep)
    /\ InitNoCall
    /\ InitModule
    /\ InitIdle
    /\ InitNoSender

CallTranslateFlow ==
    /\ garg' = FlowArg(flow)
    /\ gres' = [op |-> "translate_flow"] @@ translate_flow(flow)
    /\ UNCHANGED <<flow, regVars, htmlVars, msgVars>>

CallTranslateNode ==
    \E i \in 1..Len(flow) :
        /\ garg' = flow[i]
        /\ gres' = [op |-> "translate_node"] @@ translate_node(flow[i])
        /\ UNCHANGED <<flow, regVars, htmlVars, msgVars>>

NextGeneric == CallTranslateFlow \/ CallTranslateNode

SpecGeneric == InitGeneric /\ [][NextGeneric]_vars

(***************************************************************************)
(* Properties of the generic translator (SpecGeneric).                     *)
(***************************************************************************)
\* Whether an object that is no node occurs in the node, at any depth.
RECURSIVE HasOther(_)
HasOther(node) ==
    \/ node.kind = "Other"
    \/ \E i \in 1..Len(node.kids) : HasOther(node.kids[i])

Called == gres.op # None

Count(seq, x) == Cardinality({i \in 1..Len(seq) : seq[i] = x})

\* C3, as stated: a translation fails with UnsupportedVariant exactly when
\* the flow or node translated holds, at any depth, an object whose variant
\* is outside {StandardNode, FlowNode, Layer, CloneLayer}.
C3_FailsOnUnsupportedVariant ==
    Called => ((gres.err = "UnsupportedVariant") <=> HasOther(garg))

\* C3, amended: the generic translation never fails; an object outside the
\* closed set takes the branch of the standard nodes and is returned
\* unchanged, at its own position of the result.
C3_OtherPassedThrough ==
    Called =>
        /\ gres.err = None
        /\ garg.kind \in {"Other", "StandardNode"} => gres.val = garg
        /\ garg.kind \in {"Flow", "FlowNode", "Layer"} =>
              /\ Len(gres.val.list) = Len(garg.kids)
              /\ \A i \in 1..Len(garg.kids) :
                    garg.kids[i].kind \in {"Other", "StandardNode"}
                        => gres.val.list[i] = garg.kids[i]
        /\ \A i \in 1..Len(gres.calls) :
              gres.calls[i].kind = "Other"
                  => translate_node(gres.calls[i]).val = gres.calls[i]

C3_Witness ==
    /\ gres.op = "translate_flow"
    /\ gres.err = None
    /\ Len(flow) = 2
    /\ flow[1].kind = "Layer"
    /\ flow[1].kids = <<OtherObject>>
    /\ flow[2] = OtherObject
    /\ gres.val.list[2] = OtherObject

\* C5: the translation of a CloneLayer with prototype p and n repetitions
\* is a list of n elements, each the translation of p, and p is handed to
\* _translate_node once during the call, whatever n is.
C5_CloneLayerTranslatedOnce ==
    (gres.op = "translate_node" /\ garg.kind = "CloneLayer") =>
        LET p == garg.kids[1]
        IN /\ Len(gres.val.list) = garg.n
           /\ \A i \in 1..garg.n : gres.val.list[i] = translate_node(p).val
           /\ Count(gres.calls, p) = 1
           /\ gres.calls = <<garg>> \o translate_node(p).calls

C5_Witness ==
    /\ gres.op = "translate_node"
    /\ garg.kind = "CloneLayer"
    /\ garg.n = MaxRep
    /\ garg.kids[1].kind = "FlowNode"
    /\ garg.kids[1].kids # <<>>
    /\ Len(gres.val.list) = MaxRep

\* C7: the translation of a FlowNode is the translation of the flow it
\* wraps, element by element.
C7_FlowNodeTransparent ==
    (gres.op = "translate_node" /\ garg.kind = "FlowNode") =>
        /\ gres.val = translate_flow(garg.kids).val
        /\ Len(gres.val.list) = Len(garg.kids)
        /\ \A i \in 1..Len(garg.kids) :
              gres.val.list[i] = translate_node(garg.kids[i]).val

C7_Witness ==
    /\ gres.op = "translate_node"
    /\ garg.kind = "FlowNode"
    /\ Len(garg.kids) = 2
    /\ garg.kids[1].kind = "StandardNode"
    /\ garg.kids[2].kind = "FlowNode"
    /\ gres.val.list[1] = garg.kids[1]

(***************************************************************************)
(* Properties of the HTML translation (SpecHTML).                          *)
(***************************************************************************)
OpenTags == {"<table>", "<tr>", "<td>"}

CloseTags == {"</table>", "</tr>", "</td>"}

Closes(tag) ==
    CASE tag = "</table>" -> "<table>"
      [] tag = "</tr>" -> "<tr>"
      [] tag = "</td>" -> "<td>"

CountIn(toks, S) == Cardinality({i \in 1..Len(toks) : toks[i] \in S})

\* No prefix of toks[i..] holds more closing than opening tags, d tags
\* being open before it.
RECURSIVE NeverNegative(_, _, _)
NeverNegative(toks, i, d) ==
    IF i > Len(toks) THEN TRUE
    ELSE IF toks[i] \in OpenTags THEN NeverNegative(toks, i + 1, d + 1)
    ELSE IF toks[i] \in CloseTags THEN d > 0 /\ NeverNegative(toks, i + 1, d - 1)
    ELSE NeverNegative(toks, i + 1, d)

\* Each closing tag of toks[i..] closes the tag opened last and not yet
\* closed, and none is left open; open is the stack of the open tags.
RECURSIVE WellNested(_, _, _)
WellNested(toks, i, open) ==
    IF i > Len(toks) THEN open = <<>>
    ELSE IF toks[i] \in OpenTags THEN WellNested(toks, i + 1, <<toks[i]>> \o open)
    ELSE IF toks[i] \in CloseTags
    THEN /\ open # <<>>
         /\ Head(open) = Closes(toks[i])
         /\ WellNested(toks, i + 1, Tail(open))
    ELSE WellNested(toks, i + 1, open)

\* No call is executing and the last one, if any, returned.
Returned == active = 0 /\ err = None

\* C1: the tags write_flow_to_file has written are balanced: as many
\* closing as opening tags, never more closing than opening tags in a
\* prefix, each closing tag matching the tag opened last.
C1_MarkupBalanced ==
    Returned =>
        \A f \in Files :
            /\ CountIn(sinks[f], OpenTags) = CountIn(sinks[f], CloseTags)
            /\ NeverNegative(sinks[f], 1, 0)
            /\ WellNested(sinks[f], 1, <<>>)

\* C2: a write_flow_to_file call made while a call on the instance is
\* executing fails at once with ReentrantUse, writes nothing and leaves
\* the binding of the executing call as it is.
C2_ReentrantUseRefused ==
    [][(active >= 1 /\ active' = active + 1)
        => (err' = "ReentrantUse" /\ sinks' = sinks /\ html_file' = html_file)]_vars

\* C9: whenever no write_flow_to_file call is executing, no instance holds
\* a file object.
C9_NoSinkHeldWhenIdle ==
    active = 0 => \A t \in Inst : html_file[t] = None

NumLines(toks) == CountIn(toks, {"\n"})

\* The newline-terminated lines of toks, cur being the line begun.
RECURSIVE SplitLines(_, _, _)
SplitLines(toks, i, cur) ==
    IF i > Len(toks) THEN <<>>
    ELSE IF toks[i] = "\n" THEN <<cur>> \o SplitLines(toks, i + 1, <<>>)
    ELSE SplitLines(toks, i + 1, Append(cur, toks[i]))

\* The texts of the write calls, each followed by a newline.
RECURSIVE Terminated(_)
Terminated(log) ==
    IF log = <<>> THEN <<>>
    ELSE Head(log).text \o <<"\n">> \o Terminated(Tail(log))

\* The lines beyond the first of the parameter blocks written.
RECURSIVE ExtraLines(_)
ExtraLines(log) ==
    IF log = <<>> THEN 0
    ELSE (IF Head(log).lines >= 2 THEN Head(log).lines - 1 ELSE 0) + ExtraLines(Tail(log))

\* C4, as stated: the file holds one newline-terminated line per write
\* call, in the order of the calls.
C4_OneLinePerWrite ==
    \A f \in Files :
        /\ NumLines(sinks[f]) = Len(wlog[f])
        /\ SplitLines(sinks[f], 1, <<>>) = [i \in 1..Len(wlog[f]) |-> wlog[f][i].text]

\* C4, amended: each write call appends its text and one newline; the
\* text of a parameter block of k >= 2 lines holds k - 1 newlines of its
\* own and no other text holds any, so the file holds one line per write
\* call and k - 1 more for each such block.
C4_OneNewlinePerWrite ==
    \A f \in Files :
        /\ sinks[f] = Terminated(wlog[f])
        /\ \A i \in 1..Len(wlog[f]) :
              NumLines(wlog[f][i].text) =
                  IF wlog[f][i].lines >= 2 THEN wlog[f][i].lines - 1 ELSE 0
        /\ NumLines(sinks[f]) = Len(wlog[f]) + ExtraLines(wlog[f])

C4_Witness ==
    /\ Returned
    /\ Len(flow) = 2
    /\ \E i \in 1..Len(wlog["file1"]) : wlog["file1"][i].lines = 2
    /\ NumLines(sinks["file1"]) = Len(wlog["file1"]) + 1

(***************************************************************************)
(* Properties of the registry (SpecRegistry).                              *)
(***************************************************************************)
Constructed == {t \in Inst : ctor_arg[t] # None}

Matching(reg, node) == {i \in 1..Len(reg) : isinstance(node, reg[i][1])}

Largest(S) == CHOOSE i \in S : \A j \in S : j <= i

ParamWrites(log) == {i \in 1..Len(log) : log[i].lines >= 0}

\* C6: the registry of an instance is the initial entries followed by the
\* entries added, in the order of the calls; a StandardNode is rendered
\* with the render function of the last of the entries it matches and with
\* no other; if it matches none, no parameter text is written and the
\* render does not fail.
C6_LastRegisteredWins ==
    /\ \A t \in Constructed :
          Registry(t) = InitialLists[ctor_arg[t]] \o added[ctor_arg[t]]
    /\ LET m == Matching(last_render.reg, last_render.node)
       IN last_render.node # NoNode =>
             /\ m = {} => (last_render.pos = 0 /\ last_render.fn = None)
             /\ m # {} => /\ last_render.pos = Largest(m)
                          /\ last_render.fn = last_render.reg[Largest(m)][2]
             /\ err \in {None, "IOError"}
             /\ Returned =>
                   /\ Cardinality(ParamWrites(wlog["file1"])) = IF m = {} THEN 0 ELSE 1
                   /\ \A i \in ParamWrites(wlog["file1"]) :
                         wlog["file1"][i].lines = LinesOf(last_render.fn)

C6_Witness ==
    /\ Returned
    /\ last_render.node.type = "SFA2Node"
    /\ Cardinality(Matching(last_render.reg, last_render.node)) = 3
    /\ last_render.pos = 5
    /\ last_render.fn = "user_two"
    /\ ParamWrites(wlog["file1"]) # {}

\* C10: the instances constructed with the default registry refer to one
\* list, the list NODE_HTML_TRANSLATORS of the module, which holds the
\* entries added through any of them; the instance constructed with a list
\* of its caller extends that list.
C10_RegistryShared ==
    /\ \A t \in Constructed \cap DefaultInst :
          /\ node_param_translators[t] = "NODE_HTML_TRANSLATORS"
          /\ Registry(t) = NODE_HTML_TRANSLATORS \o added["NODE_HTML_TRANSLATORS"]
    /\ \A t, u \in Constructed \cap DefaultInst :
          /\ Registry(t) = Registry(u)
          /\ \A ty \in NodeClasses :
                select_translator(Registry(t), StandardNode(ty))
                    = select_translator(Registry(u), StandardNode(ty))
    /\ heap["NODE_HTML_TRANSLATORS"] = NODE_HTML_TRANSLATORS \o added["NODE_HTML_TRANSLATORS"]
    /\ \A t \in Constructed \ DefaultInst :
          /\ node_param_translators[t] = "caller_list"
          /\ Registry(t) = heap["caller_list"]
    /\ heap["caller_list"] = CallerList \o added["caller_list"]

C10_Witness ==
    /\ Constructed = Inst
    /\ Len(added["NODE_HTML_TRANSLATORS"]) = 2
    /\ added["caller_list"] # <<>>
    /\ Registry("t1") = Registry("t2")
    /\ Len(Registry("t2")) = 5
    /\ Len(heap["caller_list"]) > Len(CallerList)

(***************************************************************************)
(* SenderBiNode.  A string is the sequence of its characters; None and ""  *)
(* are both <<>>: `if self._recipient_id` is the only test made of them.   *)
(* msg is the set of the <<key, value>> items of the dict.                 *)
(***************************************************************************)
\* Longest recipient_id and longest separator.
MaxStrLen == 2

Chars == {"=", ">", "a"}

RECURSIVE StringsOfLen(_)
StringsOfLen(k) ==
    IF k = 0 THEN {<<>>}
    ELSE {<<c>> \o r : c \in Chars, r \in StringsOfLen(k - 1)}

Strings(max) == UNION {StringsOfLen(k) : k \in 0..max}

msg_x == <<"m", "s", "g", "_", "x">>

\* A key built without the separator.
execute_without_sep(rid, msgsep, x, no_x) ==
    LET key == IF rid # <<>> THEN rid \o msg_x ELSE msg_x
    IN [called |-> TRUE, x |-> IF no_x THEN None ELSE x, msg |-> {<<key, x>>}]

\* SenderBiNode._execute(x, no_x): the pair (x, msg) it returns.
SenderBiNode_execute(rid, msgsep, x, no_x) ==
    LET key == IF rid # <<>> THEN rid \o msgsep \o msg_x ELSE msg_x
    IN [called |-> TRUE, x |-> IF no_x THEN None ELSE x, msg |-> {<<key, x>>}]

\* s[i..i+Len(p)-1] = p
OccursAt(s, p, i) ==
    /\ i >= 1
    /\ i + Len(p) - 1 <= Len(s)
    /\ \A j \in 1..Len(p) : s[i + j - 1] = p[j]

Contains(s, p) == \E i \in 1..Len(s) : OccursAt(s, p, i)

\* The split of a key at the first occurrence of the separator.
split_first(key, msgsep) ==
    IF ~Contains(key, msgsep) THEN [found |-> FALSE, left |-> key, right |-> <<>>]
    ELSE LET i == CHOOSE k \in 1..Len(key) :
                    /\ OccursAt(key, msgsep, k)
                    /\ \A j \in 1..(k - 1) : ~OccursAt(key, msgsep, j)
         IN [found |-> TRUE,
             left |-> SubSeq(key, 1, i - 1),
             right |-> SubSeq(key, i + Len(msgsep), Len(key))]

\* The data handed to _execute.
Data == {"x1", "x2"}

InitSender ==
    /\ recipient_id \in Strings(MaxStrLen)
    /\ MSG_ID_SEP \in Strings(MaxStrLen) \ {<<>>}
    /\ ret = NoReturn
    /\ parts = NoParts
    /\ flow = <<>>
    /\ InitNoCall
    /\ InitModule
    /\ InitIdle

Execute ==
    \E x \in Data, no_x \in BOOLEAN :
        /\ ret' = SenderBiNode_execute(recipient_id, MSG_ID_SEP, x, no_x)
        /\ parts' = NoParts
        /\ UNCHANGED <<recipient_id, MSG_ID_SEP, genVars, regVars, htmlVars>>

\* The receiver of the message splits the key.
SplitKey ==
    /\ ret.called
    /\ \E item \in ret.msg : parts' = split_first(item[1], MSG_ID_SEP)
    /\ UNCHANGED <<recipient_id, MSG_ID_SEP, ret, genVars, regVars, htmlVars>>

NextSender == Execute \/ SplitKey

SpecSender == InitSender /\ [][NextSender]_vars

(***************************************************************************)
(* Properties of the message key (SpecSender).                             *)
(***************************************************************************)
\* No proper non-empty prefix of s is also a suffix of s.
Unbordered(s) ==
    \A k \in 1..(Len(s) - 1) : SubSeq(s, 1, k) # SubSeq(s, Len(s) - k + 1, Len(s))

KeyRoundTrip ==
    /\ ret.called =>
          /\ Cardinality(ret.msg) = 1
          /\ \A item \in ret.msg : item[1] = recipient_id \o MSG_ID_SEP \o msg_x
    /\ parts # NoParts =>
          /\ parts.found
          /\ parts.left = recipient_id
          /\ parts.right = msg_x

\* C8, as stated: for a non-empty recipient_id that does not contain the
\* separator, whatever the separator, msg has the one key recipient_id +
\* MSG_ID_SEP + "msg_x", and the split of the key at the first separator
\* gives back recipient_id and "msg_x".
C8_KeyRoundTrip ==
    (recipient_id # <<>> /\ ~Contains(recipient_id, MSG_ID_SEP)) => KeyRoundTrip

\* C8, amended: the same, for a separator no proper non-empty prefix of
\* which is also a suffix of it.
C8_KeyRoundTripUnbordered ==
    (recipient_id # <<>> /\ ~Contains(recipient_id, MSG_ID_SEP) /\ Unbordered(MSG_ID_SEP))
        => KeyRoundTrip

C8_Witness ==
    /\ recipient_id = <<"a", "=">>
    /\ MSG_ID_SEP = <<"=", ">">>
    /\ parts.found
    /\ parts.left = recipient_id
    /\ parts.right = msg_x

====
